---- MODULE Spec2Model ----
(***************************************************************************)
(* A model of AnyArena (src/src/any_arena.rs): two bump-allocated pools of  *)
(* chunks (head for values with destructors, copy_head for plain data), a  *)
(* list of retired chunks, the two-phase header protocol of alloc_noncopy, *)
(* the growth policy alloc_grow and the bulk-destroy walk Chunk::destroy.  *)
(*                                                                         *)
(* Byte counts are usize values of WordBits bits.  An initializer passed   *)
(* to alloc is arbitrary caller code: between the reservation of a slot    *)
(* (AllocBegin) and the return of the initializer (AllocFinish) or its     *)
(* panic (AllocFail) other allocations may run, so a stack of pending      *)
(* frames is part of the state.                                            *)
(***************************************************************************)
EXTENDS Integers, Sequences, FiniteSets, TLC

\* ------------------------------------------------------------------ bounds
WordBits == 12          \* width of usize in the model
MaxAllocs == 3          \* allocations begun in one behaviour
MaxDepth == 2           \* nesting depth of running initializers
MaxClears == 2          \* calls of clear() in one behaviour

\* ------------------------------------------------------- program constants
PtrSize == 8            \* mem::size_of::<*const TyDesc>()
PtrAlign == 8           \* mem::align_of::<*const TyDesc>()
DefaultSize == 32       \* AnyArena::new()

MaxUsize == 2^WordBits - 1
IsizeMax == 2^(WordBits - 1) - 1

\* addresses the heap may return for a RawVec<u8> (requested alignment 1),
\* modulo 16
Bases == {0, 8}
\* overflow checks on (debug) or off (release) in the arena's own arithmetic
Builds == {"debug", "release"}

Max(a, b) == IF a >= b THEN a ELSE b
Wrap(x) == x % (MaxUsize + 1)

\* ------------------------------------------------------------------- types
\* The concrete types T the model allocates: (), [u8; 3], Point, a
\* zero-sized type with Drop, Rc<i32>, a 16-aligned type with Drop, and a
\* 3-byte type with Drop.
Types == {"Unit", "Bytes3", "Point", "Small", "Rc", "WideDrop", "Guard"}

size_of(T) ==
    CASE T = "Unit" -> 0 [] T = "Bytes3" -> 3 [] T = "Point" -> 12
      [] T = "Small" -> 0 [] T = "Rc" -> 8 [] T = "WideDrop" -> 16
      [] T = "Guard" -> 3

align_of(T) ==
    CASE T = "Unit" -> 1 [] T = "Bytes3" -> 1 [] T = "Point" -> 4
      [] T = "Small" -> 1 [] T = "Rc" -> 8 [] T = "WideDrop" -> 16
      [] T = "Guard" -> 1

needs_drop(T) == T \in {"Small", "Rc", "WideDrop", "Guard"}

\* address of T's vtable, used as its type descriptor (8-aligned, low bit 0)
get_tydesc(T) ==
    CASE T = "Unit" -> 1000 [] T = "Bytes3" -> 1008 [] T = "Point" -> 1016
      [] T = "Small" -> 1024 [] T = "Rc" -> 1032 [] T = "WideDrop" -> 1040
      [] T = "Guard" -> 1048

\* the TyDesc {size, align} found behind a descriptor address
TyDesc(p) ==
    LET T == CHOOSE X \in Types : get_tydesc(X) = p
    IN  [size |-> size_of(T), align |-> align_of(T)]

\* faulty variant: the flag is not stored
bitpack_tydesc_ptr_plain(p, is_done) == p
\* p as usize | (is_done as usize)
bitpack_tydesc_ptr(p, is_done) ==
    IF p % 2 = 1 THEN p ELSE p + (IF is_done THEN 1 ELSE 0)

un_bitpack_tydesc_ptr(p) == [tydesc |-> p - (p % 2), is_done |-> (p % 2 = 1)]

\* (base + align - 1) & !(align - 1): align is a power of two.  The checked
\* addition panics when RoundUpOverflows.
round_up(base, align) == ((base + align - 1) \div align) * align
RoundUpOverflows(base, align) == base + align - 1 > MaxUsize

RECURSIVE Pow2Above(_, _)
Pow2Above(p, n) == IF p >= n THEN p ELSE Pow2Above(2 * p, n)
\* usize::next_power_of_two without its overflow: the smallest power of two
\* >= n (1 for n = 0)
next_power_of_two(n) == Pow2Above(1, n)

VARIABLES
    head,       \* active chunk of the pool of values with destructors
    copy_head,  \* active chunk of the pool of plain data
    chunks,     \* retired chunks, in push order
    stack,      \* ids of the allocations whose initializer is running
    allocs,     \* history: one record per allocation begun (index = id)
    dropLog,    \* history: the destructor invocations, in order
    retireLog,  \* history: ids of the chunks pushed to chunks, in order
    freed,      \* history: ids of the chunks whose buffer was released
    phase,      \* "live", "dropped" (torn down) or "aborted" (out of memory)
    build,      \* "debug" or "release"
    clears,     \* number of clear() calls so far
    nchunks,    \* number of chunks created so far (the next chunk id - 1)
    last,       \* what the last operation was and how it ended
    ub          \* undefined behaviour met so far (a set of tags)

vars == <<head, copy_head, chunks, stack, allocs, dropLog, retireLog, freed,
          phase, build, clears, nchunks, last, ub>>

\* ------------------------------------------------------------------ chunks
\* Chunk::new: a buffer of `size` bytes at address `base`, nothing written.
\* cells is the content of the buffer: what was written where.
Chunk_new(size, is_copy, id, base) ==
    [id |-> id, base |-> base, cap |-> size, fill |-> 0, is_copy |-> is_copy,
     cells |-> {}]

Overlaps(c, off, len) ==
    /\ len > 0 /\ c.len > 0
    /\ c.off < off + len /\ off < c.off + c.len

\* a store of cell through a raw pointer into chunk ch
Store(ch, cell) ==
    IF cell.len = 0 THEN ch
    ELSE [ch EXCEPT !.cells =
            {c \in @ : ~Overlaps(c, cell.off, cell.len)} \cup {cell}]

\* faulty variant: the store moves the fill cursor behind what it wrote
StoreAt_refill(ch, id, cell) ==
    IF ch.id = id THEN [Store(ch, cell) EXCEPT !.fill = cell.off + cell.len]
    ELSE ch
\* a store through a pointer into the chunk with this id
StoreAt(ch, id, cell) == IF ch.id = id THEN Store(ch, cell) ELSE ch

HdrCell(off, word, gid) ==
    [off |-> off, len |-> PtrSize, kind |-> "hdr", word |-> word, gid |-> gid]
ValCell(off, len, gid) ==
    [off |-> off, len |-> len, kind |-> "val", word |-> gid, gid |-> gid]

\* ------------------------------------------------------------- growth policy
\* What usize::next_power_of_two may return when the power of two does not
\* fit in a usize (1 with the shift-based implementation, 0 with the
\* wrapping one).
NpotWrapped == {0, 1}

\* The choices the environment makes during one allocation: whether the heap
\* can extend the buffer in place, the address of a new buffer, and the
\* value of an overflowing next_power_of_two.
GrowChoices(B) == [inplace : BOOLEAN, base : B, wrapv : NpotWrapped]

\* RawVec::reserve_in_place(used_cap, needed_extra_cap) can extend the
\* buffer: more capacity is needed, the buffer is allocated, and the new
\* size is one the heap can provide.
InPlaceNeeded(ch, used_cap, n_bytes) ==
    ~(Wrap(ch.cap - used_cap + MaxUsize + 1) >= n_bytes \/ ch.cap = 0)
InPlaceCap(ch, used_cap, n_bytes) == Max(2 * ch.cap, used_cap + n_bytes)

\* faulty variant: the displaced chunk is never kept
Retire_never(old) == <<>>
\* self.chunks.borrow_mut().push(old_chunk) when the displaced chunk holds
\* something: the chunks to append to the retired list
Retire(old) == IF old.fill # 0 THEN <<old>> ELSE <<>>

\* faulty variant: the displaced chunk is put in front
push_front(cs, olds) == olds \o cs
\* Vec::push of the chunks in olds (none or one) onto the retired list cs
push(cs, olds) == cs \o olds

\* faulty variant: the minimum size itself is rounded up (no + 1)
new_chunk_size_exact(new_min_chunk_size, wrapv) ==
    LET exact == next_power_of_two(new_min_chunk_size)
    IN  IF exact > MaxUsize THEN wrapv ELSE exact
\* (new_min_chunk_size + 1).next_power_of_two() in a usize: the addition
\* wraps, and a power of two that does not fit is replaced by wrapv
new_chunk_size(new_min_chunk_size, wrapv) ==
    LET exact == next_power_of_two(Wrap(new_min_chunk_size + 1))
    IN  IF exact > MaxUsize THEN wrapv ELSE exact

\* faulty variant: the extended buffer does not keep what was written
reserve_in_place_fresh(ch, new_cap) == [ch EXCEPT !.cap = new_cap, !.cells = {}]
\* a successful RawVec::reserve_in_place: the same buffer, with new_cap bytes
reserve_in_place(ch, new_cap) == [ch EXCEPT !.cap = new_cap]

\* alloc_grow(head, used_cap, n_bytes) on chunk ch.  kind is "inplace" (the
\* code returns false), "new" (it returns true; chunk is the new chunk, old
\* the displaced one), "panic" (an overflow check failed, nothing changed)
\* or "abort" (the heap cannot provide the new chunk).
alloc_grow(ch, used_cap, n_bytes, g) ==
    LET required == used_cap + n_bytes
        new_min_chunk_size == Max(n_bytes, ch.cap)
        size == new_chunk_size(new_min_chunk_size, g.wrapv)
        none == [kind |-> "panic", chunk |-> ch, old |-> ch, n_bytes |-> n_bytes]
    IN  IF InPlaceNeeded(ch, used_cap, n_bytes) /\ required > MaxUsize
        THEN none                       \* "capacity overflow"
        ELSE IF /\ InPlaceNeeded(ch, used_cap, n_bytes)
                /\ InPlaceCap(ch, used_cap, n_bytes) <= IsizeMax
                /\ g.inplace
        THEN [none EXCEPT !.kind = "inplace",
                          !.chunk = reserve_in_place(ch,
                                        InPlaceCap(ch, used_cap, n_bytes))]
        ELSE IF new_min_chunk_size + 1 > MaxUsize /\ build = "debug"
        THEN none                       \* "attempt to add with overflow"
        ELSE IF size > IsizeMax
        THEN [none EXCEPT !.kind = "abort"]
        ELSE [none EXCEPT !.kind = "new",
                          !.chunk = Chunk_new(size, FALSE, nchunks + 1, g.base)]

\* ---------------------------------------------------------- the two pools
\* The result of alloc_copy_inner / alloc_noncopy_inner: kind "ok", "panic"
\* or "abort"; chunk is the pool's active chunk after the call, retired the
\* chunks pushed to the retired list, gone the ids of the chunks released,
\* (chunk.id, tydesc_start) and (chunk.id, start) the pointers returned.
NoGrow == [kind |-> "none"]
Failed(kind, ch) ==
    [kind |-> kind, chunk |-> ch, retired |-> <<>>, gone |-> {},
     tydesc_start |-> 0, start |-> 0, end |-> 0, grow |-> NoGrow]

\* faulty variant: the fill cursor is not advanced when the slot is reserved
Placed_deferred(ch, gr, tydesc_start, start, end) ==
    [kind |-> "ok", chunk |-> ch,
     retired |-> IF gr.kind = "new" THEN Retire(gr.old) ELSE <<>>,
     gone |-> IF gr.kind = "new" /\ Retire(gr.old) = <<>>
              THEN {gr.old.id} ELSE {},
     tydesc_start |-> tydesc_start, start |-> start, end |-> end,
     grow |-> IF gr.kind = "none" THEN NoGrow
              ELSE [kind |-> gr.kind, oldcap |-> gr.old.cap,
                    oldfill |-> gr.old.fill, oldid |-> gr.old.id,
                    n_bytes |-> gr.n_bytes, newcap |-> gr.chunk.cap,
                    newid |-> gr.chunk.id]]

Placed(ch, gr, tydesc_start, start, end) ==
    [kind |-> "ok", chunk |-> [ch EXCEPT !.fill = end],
     retired |-> IF gr.kind = "new" THEN Retire(gr.old) ELSE <<>>,
     gone |-> IF gr.kind = "new" /\ Retire(gr.old) = <<>>
              THEN {gr.old.id} ELSE {},
     tydesc_start |-> tydesc_start, start |-> start, end |-> end,
     grow |-> IF gr.kind = "none" THEN NoGrow
              ELSE [kind |-> gr.kind, oldcap |-> gr.old.cap,
                    oldfill |-> gr.old.fill, oldid |-> gr.old.id,
                    n_bytes |-> gr.n_bytes, newcap |-> gr.chunk.cap,
                    newid |-> gr.chunk.id]]

\* faulty variant: the new chunk keeps the flag alloc_grow gave it
set_is_copy_skipped(ch) == ch
\* copy_head.is_copy.set(true)
set_is_copy(ch) == [ch EXCEPT !.is_copy = TRUE]

alloc_copy_inner(n_bytes, align, g) ==
    LET fill == copy_head.fill
        start == round_up(fill, align)
        end == Wrap(start + n_bytes)
        gr == alloc_grow(copy_head, fill, Wrap(end - fill + MaxUsize + 1), g)
    IN  IF RoundUpOverflows(fill, align) THEN Failed("panic", copy_head)
        ELSE IF start + n_bytes > MaxUsize /\ build = "debug"
        THEN Failed("panic", copy_head)
        ELSE IF end <= copy_head.cap
        THEN Placed(copy_head, NoGrow, 0, start, end)
        ELSE IF end < fill /\ build = "debug" THEN Failed("panic", copy_head)
        ELSE IF gr.kind \in {"panic", "abort"} THEN Failed(gr.kind, copy_head)
        ELSE IF gr.kind = "new"
        THEN \* Continuing with a newly allocated chunk
             Placed(set_is_copy(gr.chunk), gr, 0, 0, n_bytes)
        ELSE Placed(gr.chunk, gr, 0, start, end)

\* faulty variant: the slot ends right behind the payload
slot_end_packed(start, n_bytes) == Wrap(start + n_bytes)
\* round_up(start + n_bytes, mem::align_of::<*const TyDesc>())
slot_end(start, n_bytes) == round_up(Wrap(start + n_bytes), PtrAlign)

alloc_noncopy_inner(n_bytes, align, g) ==
    LET fill == head.fill
        tydesc_start == fill
        after_tydesc == Wrap(fill + PtrSize)
        start == round_up(after_tydesc, align)
        end == slot_end(start, n_bytes)
        gr == alloc_grow(head, tydesc_start,
                         Wrap(end - tydesc_start + MaxUsize + 1), g)
        start2 == round_up(PtrSize, align)
        end2 == slot_end(start2, n_bytes)
    IN  IF fill + PtrSize > MaxUsize /\ build = "debug"
        THEN Failed("panic", head)
        ELSE IF RoundUpOverflows(after_tydesc, align)
        THEN Failed("panic", head)
        ELSE IF start + n_bytes > MaxUsize /\ build = "debug"
        THEN Failed("panic", head)
        ELSE IF RoundUpOverflows(Wrap(start + n_bytes), PtrAlign)
        THEN Failed("panic", head)
        ELSE IF end <= head.cap
        THEN Placed(head, NoGrow, tydesc_start, start, end)
        ELSE IF end < tydesc_start /\ build = "debug"
        THEN Failed("panic", head)
        ELSE IF gr.kind \in {"panic", "abort"} THEN Failed(gr.kind, head)
        ELSE IF gr.kind = "new"
        THEN \* Continuing with a newly allocated chunk
             Placed(gr.chunk, gr, 0, start2, end2)
        ELSE Placed(gr.chunk, gr, tydesc_start, start, end)

\* ------------------------------------------------------- bulk-destroy walk
\* Chunk::destroy from offset idx: the slots visited, in order.  A visit of
\* kind "slot" read a header written by alloc_noncopy; drop_glue is invoked
\* for it iff is_done.  A visit of kind "wild" read bytes that are no header
\* (undefined behaviour), and the walk is cut there.
\* faulty variant: the next header is looked for right behind the payload
next_tydesc_packed(start, size) == start + size
\* "Find where the next tydesc lives"
next_tydesc(start, size) == round_up(start + size, PtrAlign)

RECURSIVE destroy_from(_, _)
destroy_from(ch, idx) ==
    IF ~(idx < ch.fill) THEN <<>>
    ELSE LET hs == {c \in ch.cells : c.kind = "hdr" /\ c.off = idx}
         IN  IF hs = {}
             THEN <<[kind |-> "wild", chunk |-> ch.id, off |-> idx, start |-> idx,
                     is_done |-> FALSE, gid |-> 0, valok |-> FALSE]>>
             ELSE LET h == CHOOSE c \in hs : TRUE
                      u == un_bitpack_tydesc_ptr(h.word)
                      td == TyDesc(u.tydesc)
                      after_tydesc == idx + PtrSize
                      start == round_up(after_tydesc, td.align)
                      valok == \/ td.size = 0
                               \/ ValCell(start, td.size, h.gid) \in ch.cells
                 IN  <<[kind |-> "slot", chunk |-> ch.id, off |-> idx,
                        start |-> start, is_done |-> u.is_done, gid |-> h.gid,
                        valok |-> valok]>>
                     \o destroy_from(ch, next_tydesc(start, td.size))

destroy(ch) == destroy_from(ch, 0)

\* the value of idx when the loop of Chunk::destroy, entered with idx, is
\* left; -1 when the walk reads bytes that are no header
RECURSIVE destroy_end(_, _)
destroy_end(ch, idx) ==
    IF ~(idx < ch.fill) THEN idx
    ELSE LET hs == {c \in ch.cells : c.kind = "hdr" /\ c.off = idx}
         IN  IF hs = {} THEN -1
             ELSE LET h == CHOOSE c \in hs : TRUE
                      td == TyDesc(un_bitpack_tydesc_ptr(h.word).tydesc)
                      start == round_up(idx + PtrSize, td.align)
                  IN  destroy_end(ch, next_tydesc(start, td.size))

\* faulty variant: the walk does not look at is_copy
RECURSIVE destroy_chunks_all(_)
destroy_chunks_all(cs) ==
    IF cs = <<>> THEN <<>>
    ELSE destroy(Head(cs)) \o destroy_chunks_all(Tail(cs))

\* for chunk in self.chunks.borrow().iter() { if !chunk.is_copy.get() {
\* chunk.destroy() } }
RECURSIVE destroy_chunks(_)
destroy_chunks(cs) ==
    IF cs = <<>> THEN <<>>
    ELSE (IF ~Head(cs).is_copy THEN destroy(Head(cs)) ELSE <<>>)
         \o destroy_chunks(Tail(cs))

\* faulty variant: only the head chunk is walked
destroy_all_head == destroy(head)
\* the visits of one clear() or one teardown: the head chunk, then the
\* retired chunks
destroy_all == destroy(head) \o destroy_chunks(chunks)

\* faulty variant: a walk that ignores the init flag
IsInvoked_any(v) == TRUE
IsInvoked(v) == v.kind = "wild" \/ v.is_done
Invoked(visits) == SelectSeq(visits, IsInvoked)

\* history: the log entries and the per-allocation counts of one walk
LogOf(visits, n) ==
    [i \in 1..Len(Invoked(visits)) |->
        [gid |-> Invoked(visits)[i].gid, chunk |-> Invoked(visits)[i].chunk,
         off |-> Invoked(visits)[i].start, walk |-> n,
         active |-> Invoked(visits)[i].chunk = head.id,
         ok |-> Invoked(visits)[i].kind = "slot" /\ Invoked(visits)[i].valok]]

Counted(visits) ==
    [i \in DOMAIN allocs |->
        [allocs[i] EXCEPT !.drops = @ + Cardinality(
            {k \in 1..Len(Invoked(visits)) : Invoked(visits)[k].gid = i})]]

ChunkIds(cs) == {cs[i].id : i \in DOMAIN cs}

\* -------------------------------------------------------------- operations
Result(op, res, id, grow, info) ==
    [op |-> op, res |-> res, id |-> id, grow |-> grow, info |-> info]

\* new_with_size(initial_size), for initial_size in S, buffer addresses in B
\* and builds in Bl
InitOf(S, B, Bl) ==
    \E initial_size \in S, b1 \in B, b2 \in B, bld \in Bl :
        /\ initial_size <= IsizeMax
        /\ head = Chunk_new(initial_size, FALSE, 1, b1)
        /\ copy_head = Chunk_new(initial_size, TRUE, 2, b2)
        /\ chunks = <<>>
        /\ stack = <<>>
        /\ allocs = <<>>
        /\ dropLog = <<>>
        /\ retireLog = <<>>
        /\ freed = {}
        /\ phase = "live"
        /\ build = bld
        /\ clears = 0
        /\ nchunks = 2
        /\ last = Result("new", "ok", 0, NoGrow, initial_size)
        /\ ub = {}

\* the part of an allocation that both pools share: the retired list, the
\* chunk counter and the histories
Bookkeeping(r) ==
    /\ chunks' = push(chunks, r.retired)
    /\ retireLog' = retireLog \o [i \in DOMAIN r.retired |-> r.retired[i].id]
    /\ freed' = freed \cup r.gone
    /\ nchunks' = IF r.grow.kind = "new" THEN nchunks + 1 ELSE nchunks

Refused(op, r) ==
    /\ phase' = IF r.kind = "abort" THEN "aborted" ELSE phase
    /\ last' = Result(op, r.kind, 0, NoGrow, 0)
    /\ UNCHANGED <<head, copy_head, chunks, stack, allocs, dropLog, retireLog,
                   freed, build, clears, nchunks, ub>>

AllocRecord(T, pool, r, len) ==
    [ty |-> T, pool |-> pool, chunk |-> r.chunk.id,
     hdr |-> r.tydesc_start, start |-> r.start, len |-> len,
     addr |-> r.chunk.base + r.start, st |-> "running", epoch |-> clears,
     parent |-> IF stack = <<>> THEN 0 ELSE stack[Len(stack)], drops |-> 0]

\* alloc::<T>(op) up to the call of op: alloc_noncopy_inner and the header
\* write with is_done = false, or alloc_copy_inner
AllocBegin(T, g) ==
    /\ phase = "live"
    /\ Len(allocs) < MaxAllocs
    /\ Len(stack) < MaxDepth
    /\ LET id == Len(allocs) + 1
           r == IF needs_drop(T)
                THEN alloc_noncopy_inner(size_of(T), align_of(T), g)
                ELSE alloc_copy_inner(size_of(T), align_of(T), g)
       IN  IF r.kind # "ok" THEN Refused("alloc", r)
           ELSE /\ IF needs_drop(T)
                   THEN /\ head' = Store(r.chunk, HdrCell(r.tydesc_start,
                                     bitpack_tydesc_ptr(get_tydesc(T), FALSE), id))
                        /\ UNCHANGED copy_head
                   ELSE /\ copy_head' = r.chunk
                        /\ UNCHANGED head
                /\ Bookkeeping(r)
                /\ allocs' = Append(allocs,
                      AllocRecord(T, IF needs_drop(T) THEN "noncopy" ELSE "copy",
                                  r, size_of(T)))
                /\ stack' = Append(stack, id)
                /\ last' = Result("begin", "ok", id, r.grow, 0)
                /\ UNCHANGED <<dropLog, phase, build, clears, ub>>

\* the initializer of the innermost running alloc returns: ptr::write of
\* its value, then (alloc_noncopy) the header write with is_done = true
AllocFinish ==
    /\ phase = "live"
    /\ stack # <<>>
    /\ LET id == stack[Len(stack)]
           a == allocs[id]
           val == ValCell(a.start, a.len, id)
           hdr == HdrCell(a.hdr, bitpack_tydesc_ptr(get_tydesc(a.ty), TRUE), id)
           W(ch) == IF a.pool = "noncopy"
                    THEN StoreAt(StoreAt(ch, a.chunk, val), a.chunk, hdr)
                    ELSE StoreAt(ch, a.chunk, val)
       IN  /\ head' = W(head)
           /\ copy_head' = W(copy_head)
           /\ chunks' = [i \in DOMAIN chunks |-> W(chunks[i])]
           /\ allocs' = [allocs EXCEPT ![id].st = "done"]
           /\ stack' = SubSeq(stack, 1, Len(stack) - 1)
           /\ ub' = IF a.chunk \in freed /\ (a.len > 0 \/ a.pool = "noncopy")
                    THEN ub \cup {"write to a freed chunk"} ELSE ub
           /\ last' = Result("alloc", "ok", id, NoGrow, 0)
    /\ UNCHANGED <<dropLog, retireLog, freed, phase, build, clears, nchunks>>

\* the initializer of the innermost running alloc panics: nothing is
\* written, the panic leaves alloc
AllocFail ==
    /\ phase = "live"
    /\ stack # <<>>
    /\ LET id == stack[Len(stack)]
       IN  /\ allocs' = [allocs EXCEPT ![id].st = "failed"]
           /\ stack' = SubSeq(stack, 1, Len(stack) - 1)
           /\ last' = Result("alloc", "panic", id, NoGrow, 0)
    /\ UNCHANGED <<head, copy_head, chunks, dropLog, retireLog, freed, phase,
                   build, clears, nchunks, ub>>

\* faulty variant: no check of fill + len
LengthOverflow_unchecked(fill, len) == FALSE
\* fill.checked_add(len) is None
LengthOverflow(fill, len) == fill + len > MaxUsize

\* alloc_bytes(len)
AllocBytes(len, g) ==
    /\ phase = "live"
    /\ Len(allocs) < MaxAllocs
    /\ LET id == Len(allocs) + 1
           r == alloc_copy_inner(len, 1, g)
       IN  IF LengthOverflow(copy_head.fill, len)   \* "length overflow"
           THEN Refused("alloc_bytes", Failed("panic", copy_head))
           ELSE IF r.kind # "ok" THEN Refused("alloc_bytes", r)
           ELSE /\ copy_head' = r.chunk
                /\ Bookkeeping(r)
                /\ allocs' = Append(allocs,
                      [AllocRecord("bytes", "bytes", r, len) EXCEPT !.st = "done"])
                /\ last' = Result("alloc_bytes", "ok", id, r.grow, 0)
                /\ UNCHANGED <<head, stack, dropLog, phase, build, clears, ub>>

Wild(visits) ==
    IF \E i \in DOMAIN visits : visits[i].kind = "wild"
    THEN {"destroy read no header"} ELSE {}

\* faulty variant: a clear() that leaves the cursors where they are
ClearFill_kept(ch) == ch
\* the fill cursors after clear()
ClearFill(ch) == [ch EXCEPT !.fill = 0]

\* clear(): &mut self, so no initializer is running
Clear ==
    /\ phase = "live"
    /\ stack = <<>>
    /\ clears < MaxClears
    /\ head' = ClearFill(head)
    /\ copy_head' = ClearFill(copy_head)
    /\ chunks' = <<>>
    /\ freed' = freed \cup ChunkIds(chunks)
    /\ dropLog' = dropLog \o LogOf(destroy_all, clears + 1)
    /\ allocs' = Counted(destroy_all)
    /\ ub' = ub \cup Wild(destroy_all)
    /\ clears' = clears + 1
    /\ last' = Result("clear", "ok", 0, NoGrow,
                      [prev |-> last.op, head |-> head.id, headcap |-> head.cap,
                       copy |-> copy_head.id, copycap |-> copy_head.cap,
                       drops |-> Len(LogOf(destroy_all, clears + 1))])
    /\ UNCHANGED <<stack, retireLog, phase, build, nchunks>>

\* Drop for AnyArena, then the drop of its fields
Teardown ==
    /\ phase = "live"
    /\ stack = <<>>
    /\ phase' = "dropped"
    /\ freed' = freed \cup {head.id, copy_head.id} \cup ChunkIds(chunks)
    /\ dropLog' = dropLog \o LogOf(destroy_all, clears + 1)
    /\ allocs' = Counted(destroy_all)
    /\ ub' = ub \cup Wild(destroy_all)
    /\ last' = Result("drop", "ok", 0, NoGrow, 0)
    /\ UNCHANGED <<head, copy_head, chunks, stack, retireLog, build, clears,
                   nchunks>>

\* one step of a caller that allocates types in T and byte ranges of the
\* lengths in L, on a heap that returns the addresses in B
NextOf(T, L, B) ==
    \/ \E X \in T, g \in GrowChoices(B) : AllocBegin(X, g)
    \/ AllocFinish
    \/ AllocFail
    \/ \E len \in L, g \in GrowChoices(B) : AllocBytes(len, g)
    \/ Clear
    \/ Teardown

\* ---------------------------------------------------------- specifications
\* An arena of 16 bytes; values with destructors, with and without payload
\* and padding, and 12-byte ranges.
Init == InitOf({16}, {0}, {"release"})
Next == NextOf({"Small", "WideDrop"}, {12}, {0})
Spec == Init /\ [][Next]_vars

\* Typed values of both pools and 5-byte ranges.
NextTyped == NextOf({"Point", "WideDrop"}, {5}, {0})
SpecTyped == Init /\ [][NextTyped]_vars

\* Requests of any size, in both builds.
LargeLens == {IsizeMax + 1, MaxUsize}
InitLarge == InitOf({16}, {0}, Builds)
NextLarge == NextOf({"Point", "Rc"}, LargeLens, {0})
SpecLarge == InitLarge /\ [][NextLarge]_vars

\* Byte ranges of any length next to one type of plain data.
NextBytes == NextOf({"Point"}, LargeLens, {0})
SpecBytes == InitLarge /\ [][NextBytes]_vars

\* Buffers at any address the heap may return.
InitAddr == InitOf({16}, Bases, {"release"})
NextAddr == NextOf({"Point", "WideDrop"}, {5}, Bases)
SpecAddr == InitAddr /\ [][NextAddr]_vars

\* Values with destructors whose size is no multiple of the header size.
NextWalk == NextOf({"Guard", "WideDrop"}, {5}, {0})
SpecWalk == Init /\ [][NextWalk]_vars

\* An arena without preallocated bytes; zero-sized values of both pools.
InitZst == InitOf({0}, {0}, {"release"})
NextZst == NextOf({"Unit", "Point", "Small"}, {5}, {0})
SpecZst == InitZst /\ [][NextZst]_vars

\* Everything at once.
InitAll == InitOf({0, 16, DefaultSize}, Bases, Builds)
NextAll == NextOf(Types, {5, IsizeMax + 1, MaxUsize}, Bases)
SpecAll == InitAll /\ [][NextAll]_vars

\* ------------------------------------------------------------ vocabulary
LiveChunks == {head, copy_head} \cup {chunks[i] : i \in DOMAIN chunks}
Ids == DOMAIN allocs
Done(i) == allocs[i].st = "done"
Droppable(i) == allocs[i].pool = "noncopy"
\* allocation i was made before a clear() or a teardown that has happened
Destroyed(i) == allocs[i].epoch < clears \/ phase = "dropped"
\* allocation i is in use: made since the last clear(), arena not torn down
Current(i) == allocs[i].epoch = clears /\ phase = "live"
\* the header of slot i as the chunk's memory holds it
HeaderOf(i) ==
    {c \in UNION {ch.cells : ch \in {x \in LiveChunks : x.id = allocs[i].chunk}} :
        c.kind = "hdr" /\ c.off = allocs[i].hdr}

\* ------------------------------------------------------------------ claims
\* C1: after any sequence of allocations (succeeding or failing), byte
\* allocations and clears followed by teardown, every value with a
\* destructor whose initializer completed was destroyed exactly once; at no
\* time is a value destroyed twice, and no destructor is ever invoked for
\* plain data, a byte range, or a slot whose initializer did not complete.
C1_DestroyedExactlyOnce ==
    /\ \A i \in Ids :
          /\ allocs[i].drops <= 1
          /\ allocs[i].drops = 1 => Droppable(i) /\ Done(i)
    /\ \A k \in DOMAIN dropLog : dropLog[k].ok
    /\ phase = "dropped" =>
          \A i \in Ids : Droppable(i) /\ Done(i) => allocs[i].drops = 1

C1_Witness ==
    /\ phase = "dropped" /\ clears >= 1
    /\ \E i, j, k \in Ids :
          /\ Droppable(i) /\ Done(i) /\ allocs[i].epoch = 0
          /\ Droppable(j) /\ Done(j) /\ allocs[j].epoch >= 1
          /\ ~Droppable(k)
          /\ allocs[i].drops = 1 /\ allocs[j].drops = 1

\* C2: an allocation whose initializer failed keeps init flag = false in
\* its header while its slot exists, the failure is what alloc reports, no
\* walk ever destroys it, and the values allocated before it, after it and
\* inside its initializer are destroyed exactly once by the clear or
\* teardown that follows.
C2_FailedSlotSkipped ==
    \A i \in Ids : allocs[i].st = "failed" =>
        /\ allocs[i].drops = 0
        /\ (last.op = "alloc" /\ last.id = i) => last.res = "panic"
        /\ (Droppable(i) /\ Current(i)) =>
              /\ HeaderOf(i) # {}
              /\ \A c \in HeaderOf(i) :
                    /\ c.gid = i
                    /\ un_bitpack_tydesc_ptr(c.word) =
                          [tydesc |-> get_tydesc(allocs[i].ty), is_done |-> FALSE]
        /\ \A j \in Ids : (Droppable(j) /\ Done(j)) =>
              allocs[j].drops = IF Destroyed(j) THEN 1 ELSE 0

C2_Witness ==
    /\ phase = "dropped"
    /\ \E i, j, k \in Ids :
          /\ Droppable(i) /\ allocs[i].st = "failed"
          /\ allocs[j].parent = i /\ Droppable(j) /\ Done(j) /\ allocs[j].drops = 1
          /\ k < i /\ Droppable(k) /\ Done(k) /\ allocs[k].drops = 1

\* C3: when clear() returns, every value with a destructor that was
\* successfully allocated so far has been destroyed (once), whether it was
\* in the head chunk or in a retired chunk: the number of destructor
\* invocations so far equals the number of such allocations so far.
C3_ClearDestroysAll ==
    last.op = "clear" =>
        /\ \A i \in Ids : (Droppable(i) /\ Done(i)) => allocs[i].drops = 1
        /\ Len(dropLog) = Cardinality({i \in Ids : Droppable(i) /\ Done(i)})

C3_Witness ==
    /\ last.op = "clear" /\ clears = 2
    /\ \E i, j, k \in Ids :
          /\ Droppable(i) /\ Done(i) /\ allocs[i].epoch = 0
          /\ Droppable(j) /\ Done(j) /\ allocs[j].epoch = 1
          /\ Droppable(k) /\ Done(k) /\ allocs[k].epoch = 1
          /\ allocs[j].chunk = head.id /\ allocs[k].chunk # head.id
    /\ Len(dropLog) = 3

\* the bytes of slot i: the header (if any) and the payload
Slot(i) ==
    [chunk |-> allocs[i].chunk,
     lo |-> IF Droppable(i) THEN allocs[i].hdr ELSE allocs[i].start,
     hi |-> allocs[i].start + allocs[i].len]
Disjoint(a, b) ==
    \/ a.chunk # b.chunk
    \/ a.lo >= a.hi \/ b.lo >= b.hi
    \/ a.hi <= b.lo \/ b.hi <= a.lo
PoolHead(i) == IF Droppable(i) THEN head ELSE copy_head
Running == {stack[k] : k \in DOMAIN stack}
CellsOf(id) == UNION {ch.cells : ch \in {x \in LiveChunks : x.id = id}}
\* the writes of allocation i are where alloc reserved them
InPlace(i) ==
    /\ Droppable(i) =>
         HdrCell(allocs[i].hdr,
                 bitpack_tydesc_ptr(get_tydesc(allocs[i].ty), TRUE), i)
            \in CellsOf(allocs[i].chunk)
    /\ (allocs[i].pool # "bytes" /\ allocs[i].len > 0) =>
         ValCell(allocs[i].start, allocs[i].len, i) \in CellsOf(allocs[i].chunk)

\* C4: when an initializer starts, the fill cursor of its pool is already
\* past the slot reserved for it; every allocation made while it runs, at
\* any depth and whether or not it grows or retires the chunk, gets a range
\* disjoint from that slot; and the header and payload written when the
\* initializer returns are in the slot that was reserved.
C4_ReentrantDisjoint ==
    /\ (last.op = "begin") =>
          /\ PoolHead(last.id).id = allocs[last.id].chunk
          /\ PoolHead(last.id).fill >= Slot(last.id).hi
    /\ \A i \in Running : \A j \in Ids : j > i => Disjoint(Slot(i), Slot(j))
    /\ \A i \in Ids : (Done(i) /\ Current(i)) => InPlace(i)

C4_Witness ==
    \E i, j \in Ids :
        /\ allocs[j].parent = i /\ allocs[j].pool = allocs[i].pool
        /\ allocs[j].chunk # allocs[i].chunk
        /\ Done(i) /\ Done(j) /\ Current(i) /\ InPlace(i)
        /\ \E k \in Ids : allocs[k].parent = j

\* the range returned for allocation i, and the header in front of it
Payload(i) ==
    [chunk |-> allocs[i].chunk, lo |-> allocs[i].start,
     hi |-> allocs[i].start + allocs[i].len]
Header(i) ==
    [chunk |-> allocs[i].chunk, lo |-> allocs[i].hdr,
     hi |-> allocs[i].hdr + PtrSize]

\* C5: the ranges returned since the last clear have the requested length,
\* lie inside the capacity of their chunk, and share no byte with one
\* another or with a header of the pool of values with destructors.
C5_DisjointInBounds ==
    \A i \in Ids : Current(i) =>
        /\ allocs[i].pool # "bytes" => allocs[i].len = size_of(allocs[i].ty)
        /\ allocs[i].len > 0 =>
              \E ch \in LiveChunks :
                  ch.id = allocs[i].chunk /\ Payload(i).hi <= ch.cap
        /\ \A j \in Ids : Current(j) =>
              /\ j # i => Disjoint(Payload(i), Payload(j))
              /\ Droppable(j) => Disjoint(Payload(i), Header(j))

\* C6: every chunk (head, copy_head, every retired chunk) has
\* fill <= capacity in every reachable state.
C6_FillWithinCapacity == \A ch \in LiveChunks : ch.fill <= ch.cap

\* C7: the address of every typed allocation (buffer address plus offset)
\* is a multiple of the alignment of its type.
C7_AddressAligned ==
    \A i \in Ids :
        allocs[i].pool # "bytes" => allocs[i].addr % align_of(allocs[i].ty) = 0

\* position of chunk c in the order of retirement
RetiredAt(c) == CHOOSE k \in DOMAIN retireLog : retireLog[k] = c

\* C8: within one clear() or teardown, destructors run in ascending offset
\* (the order of reservation) within a chunk; across chunks the head chunk
\* comes first, then the retired chunks in the order they were retired.
C8_DestructionOrder ==
    \A a, b \in DOMAIN dropLog :
        (a < b /\ dropLog[a].walk = dropLog[b].walk) =>
            IF dropLog[a].chunk = dropLog[b].chunk
            THEN /\ dropLog[a].off < dropLog[b].off \/ allocs[dropLog[a].gid].len = 0
                 /\ allocs[dropLog[a].gid].hdr < allocs[dropLog[b].gid].hdr
                 /\ dropLog[a].gid < dropLog[b].gid
            ELSE \/ dropLog[a].active
                 \/ /\ ~dropLog[b].active
                    /\ dropLog[a].chunk \in {retireLog[k] : k \in DOMAIN retireLog}
                    /\ dropLog[b].chunk \in {retireLog[k] : k \in DOMAIN retireLog}
                    /\ RetiredAt(dropLog[a].chunk) < RetiredAt(dropLog[b].chunk)

C8_Witness ==
    \E a, b, c \in DOMAIN dropLog :
        /\ a < b /\ b < c
        /\ dropLog[a].walk = dropLog[b].walk /\ dropLog[b].walk = dropLog[c].walk
        /\ dropLog[a].active /\ ~dropLog[b].active /\ ~dropLog[c].active
        /\ dropLog[b].chunk # dropLog[c].chunk
        /\ dropLog[a].gid > dropLog[c].gid /\ dropLog[c].gid > dropLog[b].gid

\* the state clear() leaves
C9_AfterClear ==
    last.op = "clear" =>
        /\ chunks = <<>>
        /\ head.fill = 0 /\ copy_head.fill = 0
        /\ head.id = last.info.head /\ head.cap = last.info.headcap
        /\ copy_head.id = last.info.copy /\ copy_head.cap = last.info.copycap
        /\ head.id \notin freed /\ copy_head.id \notin freed

\* a clear() right after a clear()
C9_ClearAgain ==
    (last.op = "clear" /\ clears' = clears + 1) =>
        /\ head' = head /\ copy_head' = copy_head /\ chunks' = chunks
        /\ dropLog' = dropLog /\ allocs' = allocs /\ freed' = freed

\* C9: after clear() the retired list is empty, both fill cursors are zero
\* and the two active chunks are the buffers, with the capacities, they were
\* before the call; a clear() in that state invokes no destructor and
\* changes nothing.
C9_ClearKeepsActiveChunks == [] C9_AfterClear /\ [][C9_ClearAgain]_vars

C9_Witness ==
    /\ last.op = "clear" /\ last.info.prev = "clear" /\ last.info.drops = 0
    /\ dropLog # <<>> /\ head.id # 1 /\ copy_head.id # 2

\* the smallest power of two strictly greater than n
Pow2Beyond(n) == Pow2Above(1, n + 1)
Retired(id) == \E k \in DOMAIN chunks : chunks[k].id = id
GrewBy(kind) == last.res = "ok" /\ last.grow.kind = kind
GrownPool == IF last.op = "begin" THEN PoolHead(last.id) ELSE copy_head

\* C10 as stated, for the growths whose power of two fits in a usize: the
\* new chunk's capacity is the smallest power of two that is >=
\* max(requested_extra, current_capacity); it is the active chunk of the
\* pool that grew; the displaced chunk is appended to the retired list iff
\* its fill is non-zero.
C10_NewChunkAsStated ==
    (GrewBy("new") /\
     Pow2Beyond(Max(last.grow.n_bytes, last.grow.oldcap)) <= MaxUsize) =>
        /\ last.grow.newcap =
              next_power_of_two(Max(last.grow.n_bytes, last.grow.oldcap))
        /\ GrownPool.id = last.grow.newid /\ GrownPool.cap = last.grow.newcap
        /\ Retired(last.grow.oldid) <=> last.grow.oldfill # 0
        /\ last.grow.oldfill # 0 => chunks[Len(chunks)].id = last.grow.oldid

\* C10 amended: the capacity is the smallest power of two strictly greater
\* than max(requested_extra, current_capacity), or, when that power of two
\* does not fit in a usize, what the overflowing computation leaves (0 or
\* 1); the rest as stated.
C10_NewChunk ==
    GrewBy("new") =>
        /\ LET m == Max(last.grow.n_bytes, last.grow.oldcap)
           IN  IF Pow2Beyond(m) <= MaxUsize
               THEN last.grow.newcap = Pow2Beyond(m)
               ELSE last.grow.newcap \in NpotWrapped
        /\ GrownPool.id = last.grow.newid /\ GrownPool.cap = last.grow.newcap
        /\ Retired(last.grow.oldid) <=> last.grow.oldfill # 0
        /\ last.grow.oldfill # 0 => chunks[Len(chunks)].id = last.grow.oldid

C10_Witness ==
    /\ GrewBy("new") /\ last.op = "begin" /\ Droppable(last.id)
    /\ last.grow.oldfill # 0 /\ Retired(last.grow.oldid)
    /\ last.grow.newcap = 2 * last.grow.oldcap

\* C11: a step of alloc_bytes(len) taken when copy_head.fill + len exceeds
\* the largest usize ends in a panic, and leaves both active chunks (their
\* fill cursors included) and the retired list as they were.
C11_LengthOverflowPanics ==
    [][\A len \in LargeLens, g \in GrowChoices({0}) :
          (copy_head.fill + len > MaxUsize /\ AllocBytes(len, g)) =>
              /\ last'.op = "alloc_bytes" /\ last'.res = "panic"
              /\ head' = head /\ copy_head' = copy_head /\ chunks' = chunks
              /\ allocs' = allocs /\ phase' = phase]_vars

C11_Witness ==
    /\ last.op = "alloc_bytes" /\ last.res = "panic" /\ build = "release"
    /\ copy_head.fill > 0 /\ copy_head.fill <= copy_head.cap
    /\ \E len \in LargeLens : copy_head.fill + len > MaxUsize

\* C12: a call of alloc or alloc_bytes that completes has computed with
\* exact values: a new chunk has the capacity the growth policy gives
\* without overflow, the fill cursor is the exact end of the range, and the
\* range returned is no longer than the capacity of its chunk.
C12_NoWrappedValue ==
    (last.op \in {"begin", "alloc_bytes"} /\ last.res = "ok") =>
        /\ GrewBy("new") =>
              last.grow.newcap =
                  Pow2Beyond(Max(last.grow.n_bytes, last.grow.oldcap))
        /\ GrownPool.id = allocs[last.id].chunk
        /\ GrownPool.fill >= allocs[last.id].start + allocs[last.id].len
        /\ allocs[last.id].len <= GrownPool.cap

\* allocation i is backed: its chunk is an active or a retired chunk whose
\* buffer has not been released
Backed(i) ==
    /\ allocs[i].chunk \notin freed
    /\ \E ch \in LiveChunks : ch.id = allocs[i].chunk
\* allocation i occupies at least one byte: a payload or a header
Occupies(i) == allocs[i].len > 0 \/ Droppable(i)

\* C13 as stated: every allocation returned since the last clear, the
\* zero-sized ones and the ones whose initializer is running included, is
\* backed by an active or a retired chunk that has not been freed.
C13_BackedAsStated == \A i \in Ids : Current(i) => Backed(i)

\* C13 amended: every allocation returned since the last clear that
\* occupies at least one byte (a payload of non-zero length, or the header
\* of a value with a destructor), running or not, is backed by an active or
\* a retired chunk that has not been freed; the chunk growth discards
\* holds nothing but zero-sized plain data.
C13_Backed ==
    /\ \A i \in Ids : (Current(i) /\ Occupies(i)) => Backed(i)
    /\ \A i \in Ids : (Current(i) /\ ~Backed(i)) =>
          allocs[i].start = 0 /\ allocs[i].pool # "noncopy"
    /\ ub = {}

C13_Witness ==
    /\ GrewBy("new") /\ last.grow.oldfill = 0 /\ last.grow.oldid \in freed
    /\ \E i \in Running : i # last.id /\ Occupies(i) /\ Current(i)
    /\ \E z \in Ids : Current(z) /\ ~Occupies(z) /\ ~Backed(z)

\* the value written by allocation i reads back: its chunk is an active or
\* a retired chunk at the address it had, and holds the value at the offset
\* alloc returned
Readable(i) ==
    \E ch \in LiveChunks :
        /\ ch.id = allocs[i].chunk
        /\ ch.base + allocs[i].start = allocs[i].addr
        /\ ValCell(allocs[i].start, allocs[i].len, i) \in ch.cells
Written(i) ==
    Done(i) /\ Current(i) /\ allocs[i].pool # "bytes" /\ allocs[i].len > 0

C14_ReadsBack == \A i \in Ids : Written(i) => Readable(i)
\* a step other than clear() and teardown keeps every written value
C14_Kept ==
    \A i \in Ids :
        (Written(i) /\ Readable(i) /\ clears' = clears /\ phase' = "live") =>
            /\ allocs'[i].chunk = allocs[i].chunk
            /\ allocs'[i].start = allocs[i].start
            /\ allocs'[i].addr = allocs[i].addr
            /\ Readable(i)'

\* C14: until clear() or teardown, no later alloc or alloc_bytes (fitting,
\* growing in place, retiring the chunk, or zero-sized) changes the chunk,
\* the offset or the stored value of an earlier allocation: every value
\* written by alloc reads back unchanged.
C14_EarlierValuesUnchanged == [] C14_ReadsBack /\ [][C14_Kept]_vars

C14_Witness ==
    \E i, j, k \in Ids :
        /\ i < j /\ j < k /\ last.id = k /\ GrewBy("new")
        /\ Written(i) /\ Readable(i) /\ allocs[i].chunk = last.grow.oldid
        /\ Current(j) /\ allocs[j].len = 0
        /\ allocs[k].pool = allocs[i].pool

\* the chunks of the pool of values with destructors
NoncopyChunks == {ch \in LiveChunks : ~ch.is_copy}
\* the slots alloc reserved in chunk ch since the last clear()
SlotsIn(ch) ==
    {i \in Ids : Droppable(i) /\ allocs[i].epoch = clears /\ allocs[i].chunk = ch.id}

\* C15: when no initializer is running (a walk can start), the walk of
\* every chunk of the pool of values with destructors, started at offset 0,
\* visits exactly the header offsets alloc wrote in that chunk, each once,
\* computes for each the payload offset alloc returned, reads no header at
\* or beyond fill, and ends with idx = fill.
C15_WalkVisitsHeaders ==
    (stack = <<>> /\ phase = "live") =>
        \A ch \in NoncopyChunks :
            LET v == destroy(ch)
            IN  /\ Len(v) = Cardinality(SlotsIn(ch))
                /\ {v[k].gid : k \in DOMAIN v} = SlotsIn(ch)
                /\ \A k \in DOMAIN v :
                      /\ v[k].kind = "slot"
                      /\ v[k].off = allocs[v[k].gid].hdr
                      /\ v[k].start = allocs[v[k].gid].start
                      /\ v[k].off + PtrSize <= ch.fill
                /\ destroy_end(ch, 0) = ch.fill

C15_Witness ==
    /\ stack = <<>> /\ phase = "live" /\ clears >= 1
    /\ \E ch \in NoncopyChunks :
          /\ Len(destroy(ch)) = 2 /\ ch.id # head.id
          /\ \E k \in DOMAIN destroy(ch) : ~destroy(ch)[k].is_done
          /\ \E k \in DOMAIN destroy(ch) :
                allocs[destroy(ch)[k].gid].len % PtrAlign # 0
    /\ Len(destroy(head)) = 1

\* slot i has a header in memory
HasHeader(i) == Droppable(i) /\ Current(i)
\* what the header of slot i unpacks to, for every copy of it in memory
Unpacked(i) == {un_bitpack_tydesc_ptr(c.word) : c \in HeaderOf(i)}
Flag(i, b) == Unpacked(i) = {[tydesc |-> get_tydesc(allocs[i].ty), is_done |-> b]}

\* the header of every slot holds the descriptor of its type, with the flag
\* set exactly when the initializer has returned and its result is stored
C16_HeaderState ==
    /\ \A i \in Ids : HasHeader(i) =>
          /\ Flag(i, Done(i))
          /\ \A c \in HeaderOf(i) : c.gid = i
          /\ (Done(i) /\ allocs[i].len > 0) =>
                ValCell(allocs[i].start, allocs[i].len, i) \in CellsOf(allocs[i].chunk)
    /\ (last.op = "begin" /\ Droppable(last.id)) =>
          last.id \in Running /\ Flag(last.id, FALSE)
    /\ \A T \in Types, b \in BOOLEAN :
          un_bitpack_tydesc_ptr(bitpack_tydesc_ptr(get_tydesc(T), b)) =
              [tydesc |-> get_tydesc(T), is_done |-> b]
\* a step that is neither clear() nor teardown: the flag is not taken back,
\* it is set only by the return of the slot's own initializer
C16_HeaderStep ==
    \A i \in Ids : (HasHeader(i) /\ clears' = clears /\ phase' = "live") =>
        /\ Flag(i, TRUE) => Flag(i, TRUE)'
        /\ (Flag(i, FALSE) /\ Flag(i, TRUE)') =>
              /\ stack # <<>> /\ stack[Len(stack)] = i
              /\ last'.op = "alloc" /\ last'.res = "ok" /\ last'.id = i

\* C16: the header of a slot of a value with a destructor is written with
\* init flag = false before the initializer starts and rewritten with
\* init flag = true only when the initializer has returned and its result
\* is stored; the flag never goes back to false and the descriptor never
\* changes before clear() or teardown; unpacking a packed header yields the
\* descriptor and the flag that were packed.
C16_HeaderProtocol == [] C16_HeaderState /\ [][C16_HeaderStep]_vars

C16_Witness ==
    \E i, j, k \in Ids :
        /\ HasHeader(i) /\ HasHeader(j) /\ HasHeader(k)
        /\ i \in Running /\ allocs[j].st = "failed" /\ Done(k)
        /\ allocs[j].parent = i /\ allocs[k].parent = i
        /\ Flag(i, FALSE) /\ Flag(j, FALSE) /\ Flag(k, TRUE)

\* a step other than clear() leaves every retired chunk in its place, with
\* its buffer, its fill cursor, its capacity and its pool
C17_RetiredStep ==
    clears' = clears =>
        \A k \in DOMAIN chunks :
            /\ k \in DOMAIN chunks'
            /\ chunks'[k].id = chunks[k].id
            /\ chunks'[k].fill = chunks[k].fill
            /\ chunks'[k].cap = chunks[k].cap
            /\ chunks'[k].base = chunks[k].base
            /\ chunks'[k].is_copy = chunks[k].is_copy

\* C17: from the push of a chunk onto the retired list to the clear() or
\* teardown that destroys it, its fill cursor and its capacity do not
\* change, also when an allocation whose slot lies in it finishes after a
\* nested allocation retired the chunk.
C17_RetiredFrozen == [][C17_RetiredStep]_vars

C17_Witness ==
    /\ last.op = "alloc" /\ last.res = "ok"
    /\ Droppable(last.id) /\ allocs[last.id].len > 0
    /\ \E k \in DOMAIN chunks :
          /\ chunks[k].id = allocs[last.id].chunk
          /\ chunks[k].fill = allocs[last.id].start + allocs[last.id].len
          /\ HdrCell(allocs[last.id].hdr,
                     bitpack_tydesc_ptr(get_tydesc(allocs[last.id].ty), TRUE),
                     last.id) \in chunks[k].cells
    /\ \E j \in Ids : allocs[j].parent = last.id /\ allocs[j].chunk = head.id

\* the allocations made since the last clear() that were placed in chunk ch
HeldBy(ch) == {i \in Ids : allocs[i].epoch = clears /\ allocs[i].chunk = ch.id}
\* the slots a clear() or a teardown starting now would visit
Walked == {destroy_all[k].gid : k \in DOMAIN destroy_all}

\* C18: copy_head and the retired chunks displaced from the pool of plain
\* data have is_copy set, head and the retired chunks displaced from the
\* pool of values with destructors have it unset: a chunk with the flag
\* holds plain data only, a chunk without it holds values with destructors
\* only, and the walk of clear() and teardown visits the slots of all
\* values with destructors and nothing else.
C18_FlagTellsPool ==
    phase = "live" =>
        /\ copy_head.is_copy /\ ~head.is_copy
        /\ \A k \in DOMAIN chunks : HeldBy(chunks[k]) # {}
        /\ \A ch \in LiveChunks : \A i \in HeldBy(ch) :
              ch.is_copy <=> ~Droppable(i)
        /\ (last.res = "ok" /\ last.grow.kind = "new" /\ last.grow.oldfill # 0) =>
              chunks[Len(chunks)].is_copy <=> ~Droppable(last.id)
        /\ stack = <<>> =>
              /\ Walked = {i \in Ids : Current(i) /\ Droppable(i)}
              /\ \A k \in DOMAIN destroy_all : destroy_all[k].kind = "slot"

C18_Witness ==
    /\ phase = "live" /\ stack = <<>>
    /\ copy_head.id > 2 /\ HeldBy(copy_head) # {}
    /\ \E k \in DOMAIN chunks : chunks[k].is_copy
    /\ Walked # {}

\* C19: the active chunk of each pool has a capacity strictly greater than
\* that of every retired chunk displaced from the same pool.
C19_ActiveIsLongest ==
    \A k \in DOMAIN chunks :
        IF chunks[k].is_copy THEN copy_head.cap > chunks[k].cap
        ELSE head.cap > chunks[k].cap

\* C20: the fill cursor of head and of every retired chunk of the pool of
\* values with destructors is a multiple of the pointer alignment; so is
\* the offset of every header alloc wrote, and of every header a walk
\* reads.
C20_FillPointerAligned ==
    /\ \A ch \in NoncopyChunks : ch.fill % PtrAlign = 0
    /\ \A i \in Ids : Droppable(i) => allocs[i].hdr % PtrAlign = 0
    /\ (stack = <<>> /\ phase = "live") =>
          \A k \in DOMAIN destroy_all : destroy_all[k].off % PtrAlign = 0

C20_Witness ==
    \E i, j \in Ids :
        /\ Droppable(i) /\ Droppable(j) /\ Current(i) /\ Current(j)
        /\ allocs[i].chunk = allocs[j].chunk
        /\ (allocs[i].start + allocs[i].len) % PtrAlign # 0
        /\ allocs[j].hdr = round_up(allocs[i].start + allocs[i].len, PtrAlign)
        /\ \E k \in DOMAIN chunks :
              chunks[k].id = allocs[j].chunk /\ chunks[k].fill > allocs[j].hdr

====










